---------------------------- MODULE Spec2Model ----------------------------
(***************************************************************************)
(* The driver loop of prickle (src/prickle/core.py, unpack) with the order *)
(* registry (Orderlist), the per-symbol books (Book, Booklist) and the     *)
(* message buffers (Messagelist).                                          *)
(*                                                                         *)
(* unpack is modelled as it is called by src/examples/unpack_hdf5.py:      *)
(* method = 'hdf5', version 4.1.  The HDF5 file behind `db` is the sink;   *)
(* it is taken as open when the loop starts and is modelled by the rows    *)
(* written to db.orderbooks[name].  A frame is modelled by the fields      *)
(* protocol() decodes from it.                                             *)
(***************************************************************************)
EXTENDS Integers, Sequences, FiniteSets, TLC

(***************************************************************************)
(* Bounds of the model.                                                    *)
(***************************************************************************)
\* number of frames read from the source in one run
MaxFrames == 3

\* the `names` argument of unpack: the subscribed symbols
names == {"GOOG", "AAPL"}
\* reference numbers and prices that occur on the wire
Refnos == {1, 2}
Prices == {1, 2, 3}
\* A and F frames on the wire: <<type, refno, buysell, shares, name, price>>;
\* MSFT is not subscribed
AddFrames ==
    ({"A"} \X Refnos \X {"B"} \X {2} \X {"GOOG"} \X Prices)
    \cup ({"A"} \X Refnos \X {"S"} \X {2} \X {"GOOG"} \X {1, 2})
    \cup ({"F"} \X {2} \X {"B"} \X {2} \X {"AAPL"} \X {1})
    \cup ({"A"} \X {1} \X {"B"} \X {2} \X {"MSFT"} \X {1})
\* E and X frames on the wire: <<type, refno, shares>>
ExecuteFrames == ({"E"} \X Refnos \X {1, 2, 3}) \cup ({"X"} \X Refnos \X {1})
\* C frames on the wire: <<refno, shares, price>>
ExecuteWithPriceFrames == Refnos \X {1} \X {3}
\* U frames on the wire: <<refno, newrefno, shares, price>>
ReplaceFrames == Refnos \X Refnos \X {1} \X {2}
\* H, P, Q and I frames on the wire: <<type, name>>
OtherFrames == {"P", "Q", "I"} \X {"GOOG", "MSFT"}
\* seconds carried by T messages, nanoseconds carried by the other messages
Secs == {34201}
Nanos == {7}
\* event codes of S messages, type bytes that get_message does not decode
Events == {"C", "M", "Q"}
UnknownTypes == {"Z"}
\* frames whose payload has another length than the format of their type:
\* <<type, length>>
MalformedFrames == {<<"A", 28>>, <<"P", 36>>}
\* type bytes that are no ASCII character (0x80..0xFF)
NonAsciiTypes == {"0xFF"}

(***************************************************************************)
(* Program constants.                                                      *)
(***************************************************************************)
\* MAXROWS = 10**4 in unpack, scaled down
MAXROWS == 3
\* the `nlevels` argument of unpack
nlevels == 2
\* version 5.0: width of the high part of a timestamp (16 bits), scaled down
HighBits == 2
\* version 5.0: width of the low part of a timestamp (32 bits), scaled down
LowBits == 4
\* nanoseconds in a second (10**9), scaled down
Billion == 10
\* frames read with a version that is not supported
MaxSkippedFrames == 30
\* frames read of a longer feed, and MAXROWS as scaled for it
MaxFramesLong == 4
MaxRowsLong == 8

VARIABLES
    orders,        \* orderlist.orders: refno -> Order
    books,         \* booklist.books: name -> [hist, cur]
    messages,      \* messagelist.messages: name -> list of Message
    db,            \* db.orderbooks: name -> rows written to the sink
    clock,         \* unpack: clock
    reading,       \* unpack: reading
    messagecount,  \* unpack: messagecount
    message,       \* unpack: message, as the iteration leaves it
    pc             \* "loop", "cleanup", "done", or the exception that ended unpack

vars == <<orders, books, messages, db, clock, reading, messagecount, message, pc>>

(***************************************************************************)
(* Message                                                                 *)
(***************************************************************************)
\* Message.__init__ defaults (date and mpid are carried along unchanged)
Message == [type |-> ".", sec |-> -1, nano |-> -1, event |-> ".", name |-> ".",
            buysell |-> ".", price |-> -1, shares |-> 0, refno |-> -1,
            newrefno |-> -1]

\* get_message returns None for a type it does not decode; `message` is also
\* unbound before the first frame
None == [Message EXCEPT !.type = "None"]

\* Message.split: (new_message, del_message, add_message)
split(m) ==
    << [Message EXCEPT !.sec = m.sec, !.nano = m.nano, !.type = "U",
                       !.price = m.price, !.shares = m.shares,
                       !.refno = m.refno, !.newrefno = m.newrefno],
       [Message EXCEPT !.sec = m.sec, !.nano = m.nano, !.type = "D",
                       !.refno = m.refno, !.newrefno = -1],
       [Message EXCEPT !.sec = m.sec, !.nano = m.nano, !.type = "U+",
                       !.price = m.price, !.shares = m.shares,
                       !.refno = m.refno, !.newrefno = m.newrefno] >>

(***************************************************************************)
(* Orderlist                                                               *)
(***************************************************************************)
\* faulty variant of complete_message: the shares of an Execute,
\* ExecuteWithPrice or Cancel keep the sign they have on the wire (C28 is
\* sensitive to it)
complete_message_unsigned(ords, m) ==
    IF m.refno \in DOMAIN ords
    THEN LET ref_order == ords[m.refno] IN
         CASE m.type = "U" ->
                [m EXCEPT !.name = ref_order.name, !.buysell = ref_order.buysell]
           [] m.type = "U+" ->
                [m EXCEPT !.type = "A", !.name = ref_order.name,
                          !.buysell = ref_order.buysell,
                          !.refno = m.newrefno, !.newrefno = -1]
           [] m.type \in {"E", "C", "X"} ->
                [m EXCEPT !.name = ref_order.name, !.buysell = ref_order.buysell,
                          !.price = ref_order.price]
           [] m.type = "D" ->
                [m EXCEPT !.name = ref_order.name, !.buysell = ref_order.buysell,
                          !.price = ref_order.price, !.shares = -ref_order.shares]
           [] OTHER -> m
    ELSE m

\* faulty variant of complete_message: an ExecuteWithPrice keeps the execution
\* price it carries on the wire (C35 is sensitive to it)
complete_message_keeps_price(ords, m) ==
    IF m.refno \in DOMAIN ords
    THEN LET ref_order == ords[m.refno] IN
         CASE m.type = "U" ->
                [m EXCEPT !.name = ref_order.name, !.buysell = ref_order.buysell]
           [] m.type = "U+" ->
                [m EXCEPT !.type = "A", !.name = ref_order.name,
                          !.buysell = ref_order.buysell,
                          !.refno = m.newrefno, !.newrefno = -1]
           [] m.type \in {"E", "X"} ->
                [m EXCEPT !.name = ref_order.name, !.buysell = ref_order.buysell,
                          !.price = ref_order.price, !.shares = -m.shares]
           [] m.type = "C" ->
                [m EXCEPT !.name = ref_order.name, !.buysell = ref_order.buysell,
                          !.shares = -m.shares]
           [] m.type = "D" ->
                [m EXCEPT !.name = ref_order.name, !.buysell = ref_order.buysell,
                          !.price = ref_order.price, !.shares = -ref_order.shares]
           [] OTHER -> m
    ELSE m

\* Orderlist.complete_message, as a function of the registry and the message
complete_message(ords, m) ==
    IF m.refno \in DOMAIN ords
    THEN LET ref_order == ords[m.refno] IN
         CASE m.type = "U" ->
                [m EXCEPT !.name = ref_order.name, !.buysell = ref_order.buysell]
           [] m.type = "U+" ->
                [m EXCEPT !.type = "A", !.name = ref_order.name,
                          !.buysell = ref_order.buysell,
                          !.refno = m.newrefno, !.newrefno = -1]
           [] m.type \in {"E", "C", "X"} ->
                [m EXCEPT !.name = ref_order.name, !.buysell = ref_order.buysell,
                          !.price = ref_order.price, !.shares = -m.shares]
           [] m.type = "D" ->
                [m EXCEPT !.name = ref_order.name, !.buysell = ref_order.buysell,
                          !.price = ref_order.price, !.shares = -ref_order.shares]
           [] OTHER -> m
    ELSE m

\* Orderlist.add
Orderlist_add(ords, m) ==
    LET order == [name |-> m.name, buysell |-> m.buysell,
                  price |-> m.price, shares |-> m.shares]
    IN  [r \in DOMAIN ords \cup {m.refno} |->
            IF r = m.refno THEN order ELSE ords[r]]

\* faulty variant of Orderlist_update: an Execute, ExecuteWithPrice or Cancel
\* leaves the remaining shares of the order as they were (C33 is sensitive to
\* it)
Orderlist_update_keeps_shares(ords, m) ==
    IF m.refno \in DOMAIN ords
    THEN CASE m.type = "D" ->
                [r \in DOMAIN ords \ {m.refno} |-> ords[r]]
           [] OTHER -> ords
    ELSE ords

\* Orderlist.update
Orderlist_update(ords, m) ==
    IF m.refno \in DOMAIN ords
    THEN CASE m.type \in {"E", "X", "C"} ->
                [ords EXCEPT ![m.refno].shares = @ + m.shares]
           [] m.type = "D" ->
                [r \in DOMAIN ords \ {m.refno} |-> ords[r]]
           [] OTHER -> ords
    ELSE ords

(***************************************************************************)
(* Book                                                                    *)
(***************************************************************************)
\* an empty dict of price levels
EmptyLevels == [p \in {} |-> 0]

\* Book.__init__
Book == [bids |-> EmptyLevels, asks |-> EmptyLevels, sec |-> -1, nano |-> -1]

\* faulty variant of Book_update_side: a level that reaches zero shares stays
\* in the dict (C29 is sensitive to it)
Book_update_side_keeps_zero(side, m) ==
    IF m.price \in DOMAIN side
    THEN [side EXCEPT ![m.price] = @ + m.shares]
    ELSE IF m.type \in {"A", "F"}
         THEN [p \in DOMAIN side \cup {m.price} |->
                  IF p = m.price THEN m.shares ELSE side[p]]
         ELSE side

\* faulty variant of Book_update_side: an Add onto an existing level replaces
\* its aggregate by the shares of the message (C30 is sensitive to it)
Book_update_side_overwrites(side, m) ==
    IF m.price \in DOMAIN side
    THEN IF m.type \in {"A", "F"}
         THEN [side EXCEPT ![m.price] = m.shares]
         ELSE IF side[m.price] + m.shares = 0
              THEN [p \in DOMAIN side \ {m.price} |-> side[p]]
              ELSE [side EXCEPT ![m.price] = @ + m.shares]
    ELSE IF m.type \in {"A", "F"}
         THEN [p \in DOMAIN side \cup {m.price} |->
                  IF p = m.price THEN m.shares ELSE side[p]]
         ELSE side

\* faulty variant of Book_update_side: a message of any type opens a level at
\* a price that is no key of the dict (C31 is sensitive to it)
Book_update_side_creates_level(side, m) ==
    IF m.price \in DOMAIN side
    THEN IF side[m.price] + m.shares = 0
         THEN [p \in DOMAIN side \ {m.price} |-> side[p]]
         ELSE [side EXCEPT ![m.price] = @ + m.shares]
    ELSE [p \in DOMAIN side \cup {m.price} |->
             IF p = m.price THEN m.shares ELSE side[p]]

\* one side of Book.update: the bids or the asks dict after the message
Book_update_side(side, m) ==
    IF m.price \in DOMAIN side
    THEN IF side[m.price] + m.shares = 0
         THEN [p \in DOMAIN side \ {m.price} |-> side[p]]
         ELSE [side EXCEPT ![m.price] = @ + m.shares]
    ELSE IF m.type \in {"A", "F"}
         THEN [p \in DOMAIN side \cup {m.price} |->
                  IF p = m.price THEN m.shares ELSE side[p]]
         ELSE side

\* faulty variant of Book_update: buy orders go to the asks and sell orders to
\* the bids (C13 is sensitive to it)
Book_update_sides_swapped(b, m) ==
    LET stamped == [b EXCEPT !.sec = m.sec, !.nano = m.nano] IN
    CASE m.buysell = "S" -> [stamped EXCEPT !.bids = Book_update_side(b.bids, m)]
      [] m.buysell = "B" -> [stamped EXCEPT !.asks = Book_update_side(b.asks, m)]
      [] OTHER -> stamped

\* faulty variant of Book_update: the book keeps the timestamp it had (C32 is
\* sensitive to it)
Book_update_unstamped(b, m) ==
    CASE m.buysell = "B" -> [b EXCEPT !.bids = Book_update_side(b.bids, m)]
      [] m.buysell = "S" -> [b EXCEPT !.asks = Book_update_side(b.asks, m)]
      [] OTHER -> b

\* Book.update
Book_update(b, m) ==
    LET stamped == [b EXCEPT !.sec = m.sec, !.nano = m.nano] IN
    CASE m.buysell = "B" -> [stamped EXCEPT !.bids = Book_update_side(b.bids, m)]
      [] m.buysell = "S" -> [stamped EXCEPT !.asks = Book_update_side(b.asks, m)]
      [] OTHER -> stamped

\* sorted(keys): the keys in ascending order
RECURSIVE sorted(_)
sorted(S) ==
    IF S = {} THEN << >>
    ELSE LET lo == CHOOSE x \in S : \A y \in S : x <= y
         IN  <<lo>> \o sorted(S \ {lo})

\* faulty variant of sorted_reverse: reverse=True left out (C3 is sensitive to it)
sorted_reverse_ascending(S) == sorted(S)

\* sorted(keys, reverse=True): the keys in descending order
RECURSIVE sorted_reverse(_)
sorted_reverse(S) ==
    IF S = {} THEN << >>
    ELSE LET hi == CHOOSE x \in S : \A y \in S : x >= y
         IN  <<hi>> \o sorted_reverse(S \ {hi})

\* one `for i in range(0, self.levels)` loop of Book.to_array over the prices
level_prices(sorted_keys, n) ==
    [i \in 1..nlevels |-> IF i - 1 < n THEN sorted_keys[i] ELSE 0]

\* faulty variant of level_shares: every entry reads the depth of the best
\* level (C4 is sensitive to it)
level_shares_of_best(side, sorted_keys, n) ==
    [i \in 1..nlevels |-> IF i - 1 < n THEN side[sorted_keys[1]] ELSE 0]

\* one `for i in range(0, self.levels)` loop of Book.to_array over the depths
level_shares(side, sorted_keys, n) ==
    [i \in 1..nlevels |-> IF i - 1 < n THEN side[sorted_keys[i]] ELSE 0]

\* Book.to_array: sec, nano, bid prices, ask prices, bid depths, ask depths
to_array(b) ==
    LET sorted_bids == sorted_reverse(DOMAIN b.bids)
        sorted_asks == sorted(DOMAIN b.asks)
        nbids == Cardinality(DOMAIN b.bids)
        nasks == Cardinality(DOMAIN b.asks)
    IN  <<b.sec, b.nano>>
        \o level_prices(sorted_bids, nbids)
        \o level_prices(sorted_asks, nasks)
        \o level_shares(b.bids, sorted_bids, nbids)
        \o level_shares(b.asks, sorted_asks, nasks)

(***************************************************************************)
(* Booklist and Messagelist                                                *)
(***************************************************************************)
\* faulty variant of Booklist_update: the snapshot is put in front of the
\* buffered rows (C11 is sensitive to it)
Booklist_update_in_front(bl, m) ==
    LET b == Book_update(bl[m.name].cur, m)
    IN  [bl EXCEPT ![m.name] = [hist |-> <<to_array(b)>> \o @.hist, cur |-> b]]

\* faulty variant of Booklist_update: a snapshot is recorded only when the
\* message changed the bids or the asks (C34 is sensitive to it)
Booklist_update_only_changes(bl, m) ==
    LET b == Book_update(bl[m.name].cur, m)
    IN  IF b.bids = bl[m.name].cur.bids /\ b.asks = bl[m.name].cur.asks
        THEN [bl EXCEPT ![m.name].cur = b]
        ELSE [bl EXCEPT ![m.name] = [hist |-> Append(@.hist, to_array(b)), cur |-> b]]

\* Booklist.update with method = 'hdf5'
Booklist_update(bl, m) ==
    LET b == Book_update(bl[m.name].cur, m)
    IN  [bl EXCEPT ![m.name] = [hist |-> Append(@.hist, to_array(b)), cur |-> b]]

\* faulty variant of Messagelist_add: the message is appended to the buffer of
\* every symbol (C37 is sensitive to it)
Messagelist_add_to_all(ml, m) ==
    IF m.name \in DOMAIN ml
    THEN [name \in DOMAIN ml |-> Append(ml[name], m)]
    ELSE ml

\* Messagelist.add (a name that is no key is reported and the message dropped)
Messagelist_add(ml, m) ==
    IF m.name \in DOMAIN ml
    THEN [ml EXCEPT ![m.name] = Append(@, m)]
    ELSE ml

(***************************************************************************)
(* get_message / protocol, version 4.1: the Message decoded from a frame   *)
(* of each type, given the fields the frame carries and the running clock. *)
(***************************************************************************)
protocol_T(sec) ==
    [Message EXCEPT !.type = "T", !.sec = sec, !.nano = 0]

protocol_S(time, nano, event) ==
    [Message EXCEPT !.type = "S", !.sec = time, !.nano = nano, !.event = event]

protocol_H(time, nano, name, event) ==
    [Message EXCEPT !.type = "H", !.sec = time, !.nano = nano, !.name = name,
                    !.event = event]

\* types A and F
protocol_A(type, time, nano, refno, buysell, shares, name, price) ==
    [Message EXCEPT !.type = type, !.sec = time, !.nano = nano, !.refno = refno,
                    !.buysell = buysell, !.shares = shares, !.name = name,
                    !.price = price]

\* types E and X
protocol_E(type, time, nano, refno, shares) ==
    [Message EXCEPT !.type = type, !.sec = time, !.nano = nano, !.refno = refno,
                    !.shares = shares]

protocol_C(time, nano, refno, shares, price) ==
    [Message EXCEPT !.type = "C", !.sec = time, !.nano = nano, !.refno = refno,
                    !.shares = shares, !.price = price]

protocol_D(time, nano, refno) ==
    [Message EXCEPT !.type = "D", !.sec = time, !.nano = nano, !.refno = refno]

protocol_U(time, nano, refno, newrefno, shares, price) ==
    [Message EXCEPT !.type = "U", !.sec = time, !.nano = nano, !.refno = refno,
                    !.newrefno = newrefno, !.shares = shares, !.price = price]

\* types P, Q and I: only the fields unpack reads
protocol_P(type, time, nano, name) ==
    [Message EXCEPT !.type = type, !.sec = time, !.nano = nano, !.name = name]

\* Booklist.to_hdf5: the rows of db.orderbooks after the write
to_hdf5_rows(d, bl, name) ==
    IF Len(bl[name].hist) > 0
    THEN [d EXCEPT ![name] = @ \o bl[name].hist]
    ELSE d

\* Booklist.to_hdf5: the Booklist after the write (hist is reset)
to_hdf5_reset(bl, name) ==
    IF Len(bl[name].hist) > 0
    THEN [bl EXCEPT ![name].hist = << >>]
    ELSE bl

(***************************************************************************)
(* unpack                                                                  *)
(***************************************************************************)
Init ==
    /\ orders = [r \in {} |-> 0]
    /\ books = [name \in names |-> [hist |-> << >>, cur |-> Book]]
    /\ messages = [name \in names |-> << >>]
    /\ db = [name \in names |-> << >>]
    /\ clock = 0
    /\ reading = TRUE
    /\ messagecount = 0
    /\ message = None
    /\ pc = "loop"

\* `while reading:` is entered and a whole frame is read from the source
Reads ==
    /\ pc = "loop"
    /\ messagecount < MaxFrames

\* faulty variant of after_iteration: the loop condition is not looked at and
\* the next frame is read (C39 is sensitive to it)
after_iteration_reads_on(reading1) == "loop"

\* where control goes after an iteration that raised nothing
after_iteration(reading1) == IF reading1 THEN "loop" ELSE "cleanup"

\* The `# write` section for types U, A, F, E, C, X, D.  The call
\* messagelist.to_hdf5(name=..., db=db) omits the parameter grp that
\* Messagelist.to_hdf5 requires, and raises TypeError.
write(m, ords1, bl1, ml1) ==
    /\ orders' = ords1
    /\ messages' = ml1
    /\ messagecount' = messagecount + 1
    /\ message' = m
    /\ UNCHANGED <<clock, reading>>
    /\ IF m.name \in names
       THEN IF Len(ml1[m.name]) = MAXROWS
            THEN /\ books' = bl1
                 /\ db' = db
                 /\ pc' = "TypeError"
            ELSE IF Len(bl1[m.name].hist) = MAXROWS
                 THEN /\ books' = to_hdf5_reset(bl1, m.name)
                      /\ db' = to_hdf5_rows(db, bl1, m.name)
                      /\ pc' = after_iteration(reading)
                 ELSE /\ books' = bl1
                      /\ db' = db
                      /\ pc' = after_iteration(reading)
       ELSE /\ books' = bl1
            /\ db' = db
            /\ pc' = after_iteration(reading)

\* an iteration that changes neither the registry nor a book nor a buffer
skip(m, clock1, reading1) ==
    /\ message' = m
    /\ clock' = clock1
    /\ reading' = reading1
    /\ messagecount' = messagecount + 1
    /\ pc' = after_iteration(reading1)
    /\ UNCHANGED <<orders, books, messages, db>>

\* an iteration that ends in an uncaught exception after the frame was counted
raise(m) ==
    /\ message' = m
    /\ messagecount' = messagecount + 1
    /\ pc' = "NameError"
    /\ UNCHANGED <<orders, books, messages, db, clock, reading>>

\* type T: `# update clock`
Time(sec) ==
    /\ Reads
    /\ LET m == protocol_T(sec) IN skip(m, m.sec, reading)

\* faulty variant of System: reading stops on M, as in the hfttools fork
\* (C9 is sensitive to it)
System_stop_on_M(nano, event) ==
    /\ Reads
    /\ LET m == protocol_S(clock, nano, event)
       IN  skip(m, clock, IF m.event = "M" THEN FALSE ELSE reading)

\* type S: `# update system`
System(nano, event) ==
    /\ Reads
    /\ LET m == protocol_S(clock, nano, event)
       IN  skip(m, clock, IF m.event = "C" THEN FALSE ELSE reading)

\* type H
TradingAction(nano, name, event) ==
    /\ Reads
    /\ skip(protocol_H(clock, nano, name, event), clock, reading)

\* faulty variant of Add: the order is registered before the subscription is
\* looked at (C8 is sensitive to it)
Add_registers_any(type, nano, refno, buysell, shares, name, price) ==
    /\ Reads
    /\ LET m == protocol_A(type, clock, nano, refno, buysell, shares, name, price)
       IN  IF m.name \in names
           THEN write(m,
                      Orderlist_add(orders, m),
                      Booklist_update(books, m),
                      Messagelist_add(messages, m))
           ELSE write(m, Orderlist_add(orders, m), books, messages)

\* faulty variant of Add: the snapshot is stamped with a reading of the wall
\* clock instead of the nanoseconds of the message (C18 is sensitive to it)
Add_wall_clock(type, nano, refno, buysell, shares, name, price) ==
    /\ Reads
    /\ LET m == protocol_A(type, clock, nano, refno, buysell, shares, name, price)
       IN  IF m.name \in names
           THEN \E now \in {nano, nano + 1} :
                    write(m,
                          Orderlist_add(orders, m),
                          Booklist_update(books, [m EXCEPT !.nano = now]),
                          Messagelist_add(messages, m))
           ELSE write(m, orders, books, messages)

\* types A and F
Add(type, nano, refno, buysell, shares, name, price) ==
    /\ Reads
    /\ LET m == protocol_A(type, clock, nano, refno, buysell, shares, name, price)
       IN  IF m.name \in names
           THEN write(m,
                      Orderlist_add(orders, m),
                      Booklist_update(books, m),
                      Messagelist_add(messages, m))
           ELSE write(m, orders, books, messages)

\* types E, C, X and D, given the decoded message
Modify(decoded) ==
    /\ Reads
    /\ LET m == complete_message(orders, decoded)
       IN  IF m.name \in names
           THEN write(m,
                      Orderlist_update(orders, m),
                      Booklist_update(books, m),
                      Messagelist_add(messages, m))
           ELSE write(m, orders, books, messages)

\* types E and X
Execute(type, nano, refno, shares) ==
    Modify(protocol_E(type, clock, nano, refno, shares))

\* type C
ExecuteWithPrice(nano, refno, shares, price) ==
    Modify(protocol_C(clock, nano, refno, shares, price))

\* type D
Delete(nano, refno) ==
    Modify(protocol_D(clock, nano, refno))

\* faulty variant of Replace_effects: the book applies the delete-half before
\* the registry removes the old order (C24 is sensitive to it)
Replace_effects_book_first(ords, bl, ml, m, del_message, add_message) ==
    LET bl1 == Booklist_update(bl, del_message)
        ords1 == Orderlist_update(ords, del_message)
        ords2 == Orderlist_add(ords1, add_message)
        bl2 == Booklist_update(bl1, add_message)
        ml1 == Messagelist_add(ml, m)
    IN  << [orders |-> ords, books |-> bl1, messages |-> ml],
           [orders |-> ords1, books |-> bl1, messages |-> ml],
           [orders |-> ords2, books |-> bl1, messages |-> ml],
           [orders |-> ords2, books |-> bl2, messages |-> ml],
           [orders |-> ords2, books |-> bl2, messages |-> ml1] >>

\* type U, `if message.name in names:`: the registry, the books and the
\* message buffers after each of the five statements of the block
Replace_effects(ords, bl, ml, m, del_message, add_message) ==
    LET ords1 == Orderlist_update(ords, del_message)
        bl1 == Booklist_update(bl, del_message)
        ords2 == Orderlist_add(ords1, add_message)
        bl2 == Booklist_update(bl1, add_message)
        ml1 == Messagelist_add(ml, m)
    IN  << [orders |-> ords1, books |-> bl, messages |-> ml],
           [orders |-> ords1, books |-> bl1, messages |-> ml],
           [orders |-> ords2, books |-> bl1, messages |-> ml],
           [orders |-> ords2, books |-> bl2, messages |-> ml],
           [orders |-> ords2, books |-> bl2, messages |-> ml1] >>

\* faulty variant of Replace: one snapshot, taken after both halves (C5 is
\* sensitive to it)
Replace_one_snapshot(nano, refno, newrefno, shares, price) ==
    /\ Reads
    /\ LET parts == split(protocol_U(clock, nano, refno, newrefno, shares, price))
           m == complete_message(orders, parts[1])
           del_message == complete_message(orders, parts[2])
           add_message == complete_message(orders, parts[3])
       IN  IF m.name \in names
           THEN LET ords1 == Orderlist_update(orders, del_message)
                    bl1 == [books EXCEPT ![del_message.name].cur = Book_update(@, del_message)]
                    ords2 == Orderlist_add(ords1, add_message)
                    bl2 == Booklist_update(bl1, add_message)
                IN  write(m, ords2, bl2, Messagelist_add(messages, m))
           ELSE write(m, orders, books, messages)

\* faulty variant of Replace: the add-half is completed after the delete-half
\* has left the registry (C6 is sensitive to it)
Replace_late_completion(nano, refno, newrefno, shares, price) ==
    /\ Reads
    /\ LET parts == split(protocol_U(clock, nano, refno, newrefno, shares, price))
           m == complete_message(orders, parts[1])
           del_message == complete_message(orders, parts[2])
       IN  IF m.name \in names
           THEN LET ords1 == Orderlist_update(orders, del_message)
                    bl1 == Booklist_update(books, del_message)
                    add_message == complete_message(ords1, parts[3])
                    ords2 == Orderlist_add(ords1, add_message)
                IN  write(m, ords2, bl1, Messagelist_add(messages, m))
           ELSE write(m, orders, books, messages)

\* faulty variant of Replace: the add-half is registered whether or not the
\* Replace resolved (C7 is sensitive to it)
Replace_registers_any(nano, refno, newrefno, shares, price) ==
    /\ Reads
    /\ LET parts == split(protocol_U(clock, nano, refno, newrefno, shares, price))
           m == complete_message(orders, parts[1])
           del_message == complete_message(orders, parts[2])
           add_message == complete_message(orders, parts[3])
       IN  IF m.name \in names
           THEN LET ords1 == Orderlist_update(orders, del_message)
                    bl1 == Booklist_update(books, del_message)
                    ords2 == Orderlist_add(ords1, add_message)
                    bl2 == Booklist_update(bl1, add_message)
                IN  write(m, ords2, bl2, Messagelist_add(messages, m))
           ELSE write(m, Orderlist_add(orders, add_message), books, messages)

\* type U
Replace(nano, refno, newrefno, shares, price) ==
    /\ Reads
    /\ LET parts == split(protocol_U(clock, nano, refno, newrefno, shares, price))
           m == complete_message(orders, parts[1])
           del_message == complete_message(orders, parts[2])
           add_message == complete_message(orders, parts[3])
       IN  IF m.name \in names
           THEN LET done == Replace_effects(orders, books, messages,
                                            m, del_message, add_message)[5]
                IN  write(m, done.orders, done.books, done.messages)
           ELSE write(m, orders, books, messages)

\* faulty variant of Other: a P, Q or I message of a subscribed symbol is
\* applied to the symbol's book (C36 is sensitive to it)
Other_updates_book(type, nano, name) ==
    /\ Reads
    /\ LET m == protocol_P(type, clock, nano, name)
       IN  IF m.name \in names
           THEN write(m, orders, Booklist_update(books, m), messages)
           ELSE skip(m, clock, reading)

\* types P, Q and I: the `# write` section reads tradeslist or noiilist, which
\* unpack never binds, when the symbol is subscribed (NameError)
Other(type, nano, name) ==
    /\ Reads
    /\ LET m == protocol_P(type, clock, nano, name)
       IN  IF m.name \in names THEN raise(m) ELSE skip(m, clock, reading)

\* a type byte get_message does not decode: message is None
Unknown(type) ==
    /\ Reads
    /\ skip(None, clock, reading)

\* struct.calcsize of the formats that protocol (4.1) unpacks the payloads with
calcsize == [T |-> 4, S |-> 5, H |-> 18, A |-> 29, F |-> 33, E |-> 24, C |-> 29,
             X |-> 16, D |-> 12, U |-> 28, Q |-> 33, P |-> 37, I |-> 43]

\* a frame of a decoded type with a payload of another length than the
\* format's: struct.unpack raises struct.error inside get_message, before the
\* frame is counted
Malformed(type, size) ==
    /\ Reads
    /\ size # calcsize[type]
    /\ pc' = "struct.error"
    /\ UNCHANGED <<orders, books, messages, db, clock, reading, messagecount, message>>

\* a type byte of 0x80 or above: get_message_type decodes the byte as ASCII
\* and raises UnicodeDecodeError, before the frame is decoded or counted
UndecodableType(type) ==
    /\ Reads
    /\ pc' = "UnicodeDecodeError"
    /\ UNCHANGED <<orders, books, messages, db, clock, reading, messagecount, message>>

\* the source is exhausted: data.read(2) returns b'' and struct.unpack raises
EndOfFile ==
    /\ pc = "loop"
    /\ pc' = "struct.error"
    /\ UNCHANGED <<orders, books, messages, db, clock, reading, messagecount, message>>

\* `# clean up`: the first messagelist.to_hdf5(name=name, db=db) raises TypeError
CleanUp ==
    /\ pc = "cleanup"
    /\ pc' = IF names = {} THEN "done" ELSE "TypeError"
    /\ UNCHANGED <<orders, books, messages, db, clock, reading, messagecount, message>>

ReadTime == \E sec \in Secs : Time(sec)
ReadSystem == \E nano \in Nanos, event \in Events : System(nano, event)
ReadTradingAction ==
    \E nano \in Nanos, name \in {"GOOG", "MSFT"} : TradingAction(nano, name, "T")
ReadAdd ==
    \E nano \in Nanos, f \in AddFrames : Add(f[1], nano, f[2], f[3], f[4], f[5], f[6])
ReadExecute ==
    \E nano \in Nanos, f \in ExecuteFrames : Execute(f[1], nano, f[2], f[3])
ReadExecuteWithPrice ==
    \E nano \in Nanos, f \in ExecuteWithPriceFrames :
        ExecuteWithPrice(nano, f[1], f[2], f[3])
ReadDelete == \E nano \in Nanos, refno \in Refnos : Delete(nano, refno)
ReadReplace ==
    \E nano \in Nanos, f \in ReplaceFrames : Replace(nano, f[1], f[2], f[3], f[4])
ReadOther == \E nano \in Nanos, f \in OtherFrames : Other(f[1], nano, f[2])
ReadUnknown == \E type \in UnknownTypes : Unknown(type)
ReadMalformed == \E f \in MalformedFrames : Malformed(f[1], f[2])
ReadUndecodableType == \E type \in NonAsciiTypes : UndecodableType(type)

Next ==
    \/ ReadTime
    \/ ReadSystem
    \/ ReadTradingAction
    \/ ReadAdd
    \/ ReadExecute
    \/ ReadExecuteWithPrice
    \/ ReadDelete
    \/ ReadReplace
    \/ ReadOther
    \/ ReadUnknown
    \/ ReadMalformed
    \/ ReadUndecodableType
    \/ EndOfFile
    \/ CleanUp

Spec == Init /\ [][Next]_vars

(***************************************************************************)
(* unpack with version 4.0.  The branch of protocol for 4.0 decodes the    *)
(* same fields of T, S, H, A, F, E, C, X, D, U and Q frames as the branch  *)
(* for 4.1 and has no case for P and I: such a message keeps the values    *)
(* Message() and NOIIMessage() are constructed with.                       *)
(***************************************************************************)
protocol_40_P(type, time, nano, name) ==
    IF type = "Q"
    THEN [Message EXCEPT !.type = type, !.sec = time, !.nano = nano, !.name = name]
    ELSE [Message EXCEPT !.type = type]

Other_40(type, nano, name) ==
    /\ Reads
    /\ LET m == protocol_40_P(type, clock, nano, name)
       IN  IF m.name \in names THEN raise(m) ELSE skip(m, clock, reading)

ReadOther_40 == \E nano \in Nanos, f \in OtherFrames : Other_40(f[1], nano, f[2])

Next_40 ==
    \/ ReadTime
    \/ ReadSystem
    \/ ReadTradingAction
    \/ ReadAdd
    \/ ReadExecute
    \/ ReadExecuteWithPrice
    \/ ReadDelete
    \/ ReadReplace
    \/ ReadOther_40
    \/ ReadUnknown
    \/ ReadUndecodableType
    \/ EndOfFile
    \/ CleanUp

Spec_40 == Init /\ [][Next_40]_vars

(***************************************************************************)
(* unpack with version 5.0, for A and S frames.  A frame carries its       *)
(* timestamp in two unsigned fields: temp[2], HighBits wide, the high part *)
(* and temp[3], LowBits wide, the low part.  The widths (16 and 32 in the  *)
(* source) and the nanoseconds of a second (10**9) are scaled down.        *)
(***************************************************************************)
TimestampHigh == {0, 1}
TimestampLow == {0, 1, Billion - 1, 2^LowBits - 1}
\* A frames of version 5.0: <<refno, buysell, shares, name, price>>
AddFrames_50 == {<<1, "B", 2, "GOOG", 1>>, <<1, "B", 2, "MSFT", 1>>}

\* a | b on non-negative integers
RECURSIVE BitOr(_, _)
BitOr(a, b) ==
    IF a = 0 THEN b
    ELSE IF b = 0 THEN a
    ELSE (IF a % 2 = 1 \/ b % 2 = 1 THEN 1 ELSE 0) + 2 * BitOr(a \div 2, b \div 2)

\* protocol (5.0): message.nano = temp[2] | (temp[3] << 16), the shift being
\* the width of temp[2]
protocol_50_nano(high, low) == BitOr(high, low * 2^HighBits)

protocol_50_S(time, high, low, event) ==
    [Message EXCEPT !.type = "S", !.sec = time, !.nano = protocol_50_nano(high, low),
                    !.event = event]

protocol_50_A(time, high, low, refno, buysell, shares, name, price) ==
    [Message EXCEPT !.type = "A", !.sec = time, !.nano = protocol_50_nano(high, low),
                    !.refno = refno, !.buysell = buysell, !.shares = shares,
                    !.name = name, !.price = price]

\* int(n / d) for d > 0: the quotient, truncated towards zero
int_div(n, d) == IF n < 0 THEN -((-n) \div d) ELSE n \div d

\* get_message, `if version == 5.0:`
get_message_50(m) ==
    [m EXCEPT !.sec = int_div(m.nano, Billion), !.nano = m.nano % Billion]

\* struct.calcsize of the formats that protocol (5.0) unpacks S and A with,
\* '>HHHIs' and '>HHHIQsI8sI'; there is no case, and no format, for P and I
calcsize_50 == [S |-> 11, A |-> 35]
\* payload lengths of the frames read
PayloadSizes_50 == {11, 35}

System_50(high, low, event) ==
    /\ Reads
    /\ LET m == get_message_50(protocol_50_S(clock, high, low, event))
       IN  skip(m, clock, IF m.event = "C" THEN FALSE ELSE reading)

Add_50(high, low, refno, buysell, shares, name, price) ==
    /\ Reads
    /\ LET m == get_message_50(protocol_50_A(clock, high, low, refno, buysell,
                                             shares, name, price))
       IN  IF m.name \in names
           THEN write(m,
                      Orderlist_add(orders, m),
                      Booklist_update(books, m),
                      Messagelist_add(messages, m))
           ELSE write(m, orders, books, messages)

\* types S and A with a payload of another length than the format's:
\* struct.unpack raises struct.error inside get_message
Malformed_50(type, size) ==
    /\ Reads
    /\ size # calcsize_50[type]
    /\ pc' = "struct.error"
    /\ UNCHANGED <<orders, books, messages, db, clock, reading, messagecount, message>>

\* types P and I: protocol (5.0) has no case for them and returns the message
\* as constructed, whatever the payload; its name '.' is no subscribed symbol
Other_50(type, size) ==
    /\ Reads
    /\ LET m == get_message_50([Message EXCEPT !.type = type])
       IN  IF m.name \in names THEN raise(m) ELSE skip(m, clock, reading)

ReadSystem_50 ==
    \E high \in TimestampHigh, low \in TimestampLow : System_50(high, low, "C")
ReadAdd_50 ==
    \E high \in TimestampHigh, low \in TimestampLow, f \in AddFrames_50 :
        Add_50(high, low, f[1], f[2], f[3], f[4], f[5])

ReadMalformed_50 ==
    \E type \in DOMAIN calcsize_50, size \in PayloadSizes_50 : Malformed_50(type, size)
ReadOther_50 ==
    \E type \in {"P", "I"}, size \in PayloadSizes_50 : Other_50(type, size)

Next_50 ==
    \/ ReadSystem_50
    \/ ReadAdd_50
    \/ ReadMalformed_50
    \/ ReadOther_50
    \/ EndOfFile
    \/ CleanUp

Spec_50 == Init /\ [][Next_50]_vars

(***************************************************************************)
(* unpack with a version that is none of 4.0, 4.1 and 5.0.  protocol       *)
(* raises ValueError for every type it is called with; get_message does    *)
(* not call it for another type byte.                                      *)
(***************************************************************************)
\* the types get_message passes to protocol
DecodedTypes == {"T", "S", "H", "A", "F", "E", "C", "X", "D", "U", "P", "Q", "I"}

Reads_unsupported ==
    /\ pc = "loop"
    /\ messagecount < MaxSkippedFrames

\* faulty variant of Decoded_unsupported: the frame is decoded although the
\* version is not supported (C23 is sensitive to it)
Decoded_unsupported_anyway(type) ==
    /\ Reads_unsupported
    /\ skip([Message EXCEPT !.type = type, !.sec = clock], clock, reading)

\* a frame of a decoded type: `raise ValueError(... is not supported)` inside
\* get_message, before the frame is counted
Decoded_unsupported(type) ==
    /\ Reads_unsupported
    /\ pc' = "ValueError"
    /\ UNCHANGED <<orders, books, messages, db, clock, reading, messagecount, message>>

\* another ASCII type byte: message is None
Unknown_unsupported(type) ==
    /\ Reads_unsupported
    /\ skip(None, clock, reading)

\* a type byte of 0x80 or above
UndecodableType_unsupported(type) ==
    /\ Reads_unsupported
    /\ pc' = "UnicodeDecodeError"
    /\ UNCHANGED <<orders, books, messages, db, clock, reading, messagecount, message>>

ReadDecoded_unsupported == \E type \in DecodedTypes : Decoded_unsupported(type)
ReadUnknown_unsupported == \E type \in UnknownTypes : Unknown_unsupported(type)
ReadUndecodableType_unsupported ==
    \E type \in NonAsciiTypes : UndecodableType_unsupported(type)

Next_unsupported ==
    \/ ReadDecoded_unsupported
    \/ ReadUnknown_unsupported
    \/ ReadUndecodableType_unsupported
    \/ EndOfFile

Spec_unsupported == Init /\ [][Next_unsupported]_vars

(***************************************************************************)
(* unpack (version 4.1) over longer feeds of one symbol: up to             *)
(* MaxFramesLong frames, with MAXROWS scaled to MaxRowsLong so that the    *)
(* batch writes do not end the run before the last of them.                *)
(***************************************************************************)
\* <<type, refno, buysell, shares, name, price>>
AddFrames_long == {"A"} \X {1, 2} \X {"B"} \X {2} \X {"GOOG"} \X {1}
\* <<type, refno, shares>>
ExecuteFrames_long == {<<"E", 1, 4>>, <<"E", 2, 1>>}
\* <<refno, newrefno, shares, price>>
ReplaceFrames_long == {<<1, 2, 1, 2>>}

Reads_long ==
    /\ pc = "loop"
    /\ messagecount < MaxFramesLong

\* the `# write` section, as write
write_long(m, ords1, bl1, ml1) ==
    /\ orders' = ords1
    /\ messages' = ml1
    /\ messagecount' = messagecount + 1
    /\ message' = m
    /\ UNCHANGED <<clock, reading>>
    /\ IF m.name \in names
       THEN IF Len(ml1[m.name]) = MaxRowsLong
            THEN /\ books' = bl1
                 /\ db' = db
                 /\ pc' = "TypeError"
            ELSE IF Len(bl1[m.name].hist) = MaxRowsLong
                 THEN /\ books' = to_hdf5_reset(bl1, m.name)
                      /\ db' = to_hdf5_rows(db, bl1, m.name)
                      /\ pc' = after_iteration(reading)
                 ELSE /\ books' = bl1
                      /\ db' = db
                      /\ pc' = after_iteration(reading)
       ELSE /\ books' = bl1
            /\ db' = db
            /\ pc' = after_iteration(reading)

\* types A and F, as Add
Add_long(type, nano, refno, buysell, shares, name, price) ==
    /\ Reads_long
    /\ LET m == protocol_A(type, clock, nano, refno, buysell, shares, name, price)
       IN  IF m.name \in names
           THEN write_long(m,
                           Orderlist_add(orders, m),
                           Booklist_update(books, m),
                           Messagelist_add(messages, m))
           ELSE write_long(m, orders, books, messages)

\* types E, C, X and D, as Modify
Modify_long(decoded) ==
    /\ Reads_long
    /\ LET m == complete_message(orders, decoded)
       IN  IF m.name \in names
           THEN write_long(m,
                           Orderlist_update(orders, m),
                           Booklist_update(books, m),
                           Messagelist_add(messages, m))
           ELSE write_long(m, orders, books, messages)

Execute_long(type, nano, refno, shares) ==
    Modify_long(protocol_E(type, clock, nano, refno, shares))

Delete_long(nano, refno) ==
    Modify_long(protocol_D(clock, nano, refno))

\* type U, as Replace
Replace_long(nano, refno, newrefno, shares, price) ==
    /\ Reads_long
    /\ LET parts == split(protocol_U(clock, nano, refno, newrefno, shares, price))
           m == complete_message(orders, parts[1])
           del_message == complete_message(orders, parts[2])
           add_message == complete_message(orders, parts[3])
       IN  IF m.name \in names
           THEN LET done == Replace_effects(orders, books, messages,
                                            m, del_message, add_message)[5]
                IN  write_long(m, done.orders, done.books, done.messages)
           ELSE write_long(m, orders, books, messages)

ReadAdd_long ==
    \E nano \in Nanos, f \in AddFrames_long :
        Add_long(f[1], nano, f[2], f[3], f[4], f[5], f[6])
ReadExecute_long ==
    \E nano \in Nanos, f \in ExecuteFrames_long : Execute_long(f[1], nano, f[2], f[3])
ReadDelete_long == \E nano \in Nanos, refno \in Refnos : Delete_long(nano, refno)
ReadReplace_long ==
    \E nano \in Nanos, f \in ReplaceFrames_long :
        Replace_long(nano, f[1], f[2], f[3], f[4])

Next_long ==
    \/ ReadAdd_long
    \/ ReadExecute_long
    \/ ReadDelete_long
    \/ ReadReplace_long
    \/ EndOfFile

Spec_long == Init /\ [][Next_long]_vars

(***************************************************************************)
(* unpack as a running program: the interpreter keeps executing the loop   *)
(* and the clean-up, so a step that is possible is eventually taken.       *)
(***************************************************************************)
Spec_fair == Init /\ [][Next]_vars /\ WF_vars(Next)

(***************************************************************************)
(* Properties                                                              *)
(***************************************************************************)
\* the sum of f over the keys in S
RECURSIVE Sum(_, _)
Sum(f, S) ==
    IF S = {} THEN 0
    ELSE LET x == CHOOSE y \in S : TRUE IN f[x] + Sum(f, S \ {x})

\* the remaining shares of all resting orders of a symbol
RegistryShares(name) ==
    LET mine == {r \in DOMAIN orders : orders[r].name = name}
    IN  Sum([r \in mine |-> orders[r].shares], mine)

\* the aggregate shares over all levels of a symbol's book
BookShares(name) ==
    LET b == books[name].cur
    IN  Sum(b.bids, DOMAIN b.bids) + Sum(b.asks, DOMAIN b.asks)

\* every snapshot row recorded for a symbol, written to the sink or buffered
RecordedIn(d, bl, name) == d[name] \o bl[name].hist
Recorded(name) == RecordedIn(db, books, name)

\* this step is an iteration of the loop that decoded a frame of these types
Step(types) == messagecount' = messagecount + 1 /\ message'.type \in types

\* unpack has ended, by leaving the loop or by an uncaught exception
Ended == pc \notin {"loop", "cleanup"}

\* C1: for every subscribed symbol the remaining shares of its resting orders
\* sum to the aggregate shares of its book's levels, after every event.
C1_RegistrySumEqualsBookSum ==
    \A name \in names : RegistryShares(name) = BookShares(name)

\* C2: after every event every value in bids and asks is strictly positive.
C2_LevelsStrictlyPositive ==
    \A name \in names :
        LET b == books[name].cur
        IN  /\ \A p \in DOMAIN b.bids : b.bids[p] > 0
            /\ \A p \in DOMAIN b.asks : b.asks[p] > 0

\* the slices of a snapshot row
BidPrice(row, i) == row[2 + i]
AskPrice(row, i) == row[2 + nlevels + i]
BidShares(row, i) == row[2 + 2 * nlevels + i]
AskShares(row, i) == row[2 + 3 * nlevels + i]

\* the non-sentinel bid prices of a row descend and its ask prices ascend
RowInOrder(row) ==
    /\ Len(row) = 4 * nlevels + 2
    /\ \A i \in 1..nlevels : \A j \in (i + 1)..nlevels :
        /\ (BidPrice(row, i) # 0 /\ BidPrice(row, j) # 0)
                => BidPrice(row, i) > BidPrice(row, j)
        /\ (AskPrice(row, i) # 0 /\ AskPrice(row, j) # 0)
                => AskPrice(row, i) < AskPrice(row, j)

\* C3: every snapshot row, written, buffered or taken of the book now, has
\* sec, nano and nlevels entries in each of its four blocks; its non-sentinel
\* bid prices are strictly descending and its non-sentinel ask prices
\* strictly ascending.
C3_SnapshotShapeAndOrder ==
    \A name \in names :
        /\ \A i \in 1..Len(db[name]) : RowInOrder(db[name][i])
        /\ \A i \in 1..Len(books[name].hist) : RowInOrder(books[name].hist[i])
        /\ RowInOrder(to_array(books[name].cur))

\* a book with two ask levels and a bid level has been recorded
C3_Witness ==
    \E name \in names :
        /\ Cardinality(DOMAIN books[name].cur.asks) >= 2
        /\ Cardinality(DOMAIN books[name].cur.bids) >= 1
        /\ Len(books[name].hist) >= 3

\* the i-th highest key of a dict of levels
Highest(side, i) ==
    CHOOSE p \in DOMAIN side : Cardinality({q \in DOMAIN side : q > p}) = i - 1
\* the i-th lowest key of a dict of levels
Lowest(side, i) ==
    CHOOSE p \in DOMAIN side : Cardinality({q \in DOMAIN side : q < p}) = i - 1

\* the row shows the levels of the book, best first, and sentinels after them
RowShowsBook(row, b) ==
    \A i \in 1..nlevels :
        /\ IF Cardinality(DOMAIN b.bids) >= i
           THEN /\ BidPrice(row, i) = Highest(b.bids, i)
                /\ BidShares(row, i) = b.bids[Highest(b.bids, i)]
           ELSE BidPrice(row, i) = 0 /\ BidShares(row, i) = 0
        /\ IF Cardinality(DOMAIN b.asks) >= i
           THEN /\ AskPrice(row, i) = Lowest(b.asks, i)
                /\ AskShares(row, i) = b.asks[Lowest(b.asks, i)]
           ELSE AskPrice(row, i) = 0 /\ AskShares(row, i) = 0

\* C4: entry i of the snapshot's bids is the i-th highest bid price with its
\* level's shares when the book has that many bid levels and (0, 0) otherwise;
\* the asks likewise with the i-th lowest ask price.  The row buffered last
\* for a symbol is this snapshot of its book.
C4_SnapshotEntries ==
    \A name \in names :
        /\ RowShowsBook(to_array(books[name].cur), books[name].cur)
        /\ Len(books[name].hist) > 0
            => books[name].hist[Len(books[name].hist)] = to_array(books[name].cur)

\* a recorded single-sided book: more bid levels than the row shows, no asks
C4_Witness ==
    \E name \in names :
        /\ Cardinality(DOMAIN books[name].cur.bids) > nlevels
        /\ DOMAIN books[name].cur.asks = {}
        /\ Len(books[name].hist) > 0

\* the halves of the Replace in `message`, resolved against the order it names
DeleteHalf(m, old) ==
    [Message EXCEPT !.type = "D", !.sec = m.sec, !.nano = m.nano, !.refno = m.refno,
                    !.name = old.name, !.buysell = old.buysell,
                    !.price = old.price, !.shares = -old.shares]
AddHalf(m, old) ==
    [Message EXCEPT !.type = "A", !.sec = m.sec, !.nano = m.nano, !.refno = m.newrefno,
                    !.name = old.name, !.buysell = old.buysell,
                    !.price = m.price, !.shares = m.shares]

\* C5: a Replace that resolves to a subscribed symbol records exactly two
\* snapshot rows for that symbol, the first of the book with the delete-half
\* applied and the second of the book with the add-half applied as well, and
\* no snapshot of another symbol.
C5_ReplaceRecordsTwoSnapshots ==
    [][(Step({"U"}) /\ message'.name \in names) =>
        LET name == message'.name
            old == orders[message'.refno]
            after_delete == Book_update(books[name].cur, DeleteHalf(message', old))
            after_add == Book_update(after_delete, AddHalf(message', old))
        IN  /\ RecordedIn(db', books', name) =
                    Recorded(name) \o <<to_array(after_delete), to_array(after_add)>>
            /\ to_array(after_add) = to_array(books'[name].cur)
            /\ \A other \in names \ {name} : RecordedIn(db', books', other) = Recorded(other)
      ]_vars

\* a Replace was applied and its two snapshots differ
C5_Witness ==
    \E name \in names :
        /\ message.type = "U" /\ message.name = name
        /\ Len(Recorded(name)) >= 3
        /\ Recorded(name)[Len(Recorded(name))] # Recorded(name)[Len(Recorded(name)) - 1]
        /\ Recorded(name)[Len(Recorded(name)) - 1] # Recorded(name)[Len(Recorded(name)) - 2]

\* C6: a Replace applies both of its halves to the registry and to the book,
\* the delete-half first, or neither half; the step reads no other frame.
C6_ReplaceAtomic ==
    [][Step({"U"}) =>
        \/ UNCHANGED <<orders, books, messages, db>>
        \/ /\ message'.refno \in DOMAIN orders
           /\ LET m == message'
                  old == orders[m.refno]
                  cur == books[old.name].cur
              IN  /\ orders' = [r \in (DOMAIN orders \ {m.refno}) \cup {m.newrefno} |->
                                   IF r = m.newrefno
                                   THEN [name |-> old.name, buysell |-> old.buysell,
                                         price |-> m.price, shares |-> m.shares]
                                   ELSE orders[r]]
                  /\ books'[old.name].cur =
                        Book_update(Book_update(cur, DeleteHalf(m, old)), AddHalf(m, old))
      ]_vars

\* a Replace moved an order to another reference number, next to another order
C6_Witness ==
    /\ message.type = "U" /\ message.name \in names
    /\ message.refno \notin DOMAIN orders
    /\ message.newrefno \in DOMAIN orders
    /\ pc = "loop"

\* C7: an Execute, ExecuteWithPrice, Cancel, Delete or Replace whose reference
\* number is not in the registry leaves the registry, the books, the buffers
\* and the sink unchanged, and the loop goes on.
C7_UnknownRefnoDropped ==
    [][(Step({"E", "C", "X", "D", "U"}) /\ message'.refno \notin DOMAIN orders) =>
        /\ UNCHANGED <<orders, books, messages, db>>
        /\ pc' = "loop"
      ]_vars

\* a Replace of an unknown reference number was read while an order rests
C7_Witness ==
    /\ message.type = "U" /\ message.name = "."
    /\ message.newrefno \notin DOMAIN orders
    /\ DOMAIN orders # {}
    /\ pc = "loop"

\* C8: an Add for a symbol outside `names` leaves the registry, the books,
\* the buffers and the sink unchanged, and every resting order carries a
\* subscribed symbol.
C8_UnsubscribedIgnored ==
    [][/\ (Step({"A", "F"}) /\ message'.name \notin names) =>
            UNCHANGED <<orders, books, messages, db>>
       /\ \A r \in DOMAIN orders' : orders'[r].name \in names
      ]_vars

\* an Add for MSFT was read while an order rests
C8_Witness ==
    /\ message.type = "A" /\ message.name = "MSFT"
    /\ DOMAIN orders # {}
    /\ pc = "loop"

Terminated ==
    \/ pc \in {"done", "struct.error"}
    \/ pc = "TypeError" /\ ~reading

\* C10: when unpack has ended by a SystemEvent with code C or by exhaustion
\* of the source, no message row and no snapshot row is left in a buffer.
C10_BuffersFlushedAtEnd ==
    Terminated => \A name \in names : messages[name] = << >> /\ books[name].hist = << >>

\* s is an initial part of t
IsPrefix(s, t) == Len(s) <= Len(t) /\ SubSeq(t, 1, Len(s)) = s

\* C11: in every step and for every subscribed symbol the rows written to the
\* book sink, the rows written or buffered for it, and the buffered messages
\* only grow at their end, and what a step adds comes from the frame of that
\* step: at most that one message, and rows stamped with its time.  Rows and
\* messages therefore stand in the order of the frames that produced them,
\* across batch writes.
C11_SinksInWireOrder ==
    [][\A name \in names :
        /\ IsPrefix(db[name], db'[name])
        /\ IsPrefix(Recorded(name), RecordedIn(db', books', name))
        /\ IsPrefix(messages[name], messages'[name])
        /\ Len(messages'[name]) <= Len(messages[name]) + 1
        /\ Len(messages'[name]) = Len(messages[name]) + 1
                => messages'[name][Len(messages'[name])] = message'
        /\ \A i \in (Len(Recorded(name)) + 1)..Len(RecordedIn(db', books', name)) :
                /\ RecordedIn(db', books', name)[i][1] = message'.sec
                /\ RecordedIn(db', books', name)[i][2] = message'.nano
                /\ message'.name = name
      ]_vars

\* rows of a symbol were written in a batch and a further row and further
\* messages were buffered after them
C11_Witness ==
    \E name \in names :
        /\ Len(db[name]) = MAXROWS
        /\ Len(books[name].hist) > 0
        /\ Len(messages[name]) >= 2

\* the three messages of the Replace read in this step, completed against the
\* registry as unpack completes them
ReplaceParts ==
    LET parts == split(protocol_U(clock, message'.nano, message'.refno,
                                  message'.newrefno, message'.shares, message'.price))
    IN  [i \in 1..3 |-> complete_message(orders, parts[i])]

\* C12: while a Replace of a subscribed symbol is applied, the Replace marker
\* is in the message buffer of the symbol before the registry or the book is
\* changed and before a snapshot of either half is recorded.
C12_MarkerBeforeUpdates ==
    [][(Step({"U"}) /\ message'.name \in names) =>
        LET name == message'.name
            effects == Replace_effects(orders, books, messages,
                                       ReplaceParts[1], ReplaceParts[2], ReplaceParts[3])
        IN  \A k \in 1..Len(effects) :
                (effects[k].orders # orders \/ effects[k].books # books)
                    => /\ Len(effects[k].messages[name]) = Len(messages[name]) + 1
                       /\ effects[k].messages[name][Len(messages[name]) + 1] = message'
      ]_vars

\* C13: in the book of every subscribed symbol with a bid level and an ask
\* level, the highest bid price is strictly below the lowest ask price.
C13_BookNotCrossed ==
    \A name \in names :
        \A b \in DOMAIN books[name].cur.bids : \A a \in DOMAIN books[name].cur.asks :
            b < a

\* the book's bid prices are all strictly below its ask prices
NotCrossed(b) == \A bid \in DOMAIN b.bids : \A ask \in DOMAIN b.asks : bid < ask

\* the frame of this step places an order for the symbol at a price that
\* meets or passes a level of the opposite side of its book
PlacesCrossingOrder(name) ==
    /\ message'.type \in {"A", "F", "U"}
    /\ message'.name = name
    /\ \/ message'.buysell = "B"
          /\ \E ask \in DOMAIN books[name].cur.asks : message'.price >= ask
       \/ message'.buysell = "S"
          /\ \E bid \in DOMAIN books[name].cur.bids : message'.price <= bid

\* C13 (amended): a book that is not crossed stays so in every step except
\* one that places an order at a price meeting or passing the opposite side;
\* such an order is applied as it is.
C13_NotCrossedUnlessOrderCrosses ==
    [][\A name \in names :
        (NotCrossed(books[name].cur) /\ ~PlacesCrossingOrder(name))
            => NotCrossed(books'[name].cur)
      ]_vars

\* an execution, cancel or delete was applied to a two-sided book that is not
\* crossed
C13_Witness ==
    \E name \in names :
        /\ message.type \in {"E", "C", "X", "D"} /\ message.name = name
        /\ DOMAIN books[name].cur.bids # {}
        /\ DOMAIN books[name].cur.asks # {}
        /\ NotCrossed(books[name].cur)

\* C14: an Execute for more shares than the resting order has left removes
\* the order from the registry and takes exactly the order's remaining shares
\* from its level of the book (the level goes when nothing is left of it).
C14_OverExecuteZeroesOut ==
    [][(/\ Step({"E"})
        /\ message'.refno \in DOMAIN orders
        /\ orders[message'.refno].shares > 0
        /\ -message'.shares > orders[message'.refno].shares) =>
        LET old == orders[message'.refno]
            side == IF old.buysell = "B" THEN books[old.name].cur.bids
                                         ELSE books[old.name].cur.asks
            side1 == IF old.buysell = "B" THEN books'[old.name].cur.bids
                                          ELSE books'[old.name].cur.asks
        IN  /\ message'.refno \notin DOMAIN orders'
            /\ old.price \in DOMAIN side =>
                    IF side[old.price] = old.shares
                    THEN old.price \notin DOMAIN side1
                    ELSE /\ old.price \in DOMAIN side1
                         /\ side1[old.price] = side[old.price] - old.shares
      ]_vars

\* C15: an Execute, ExecuteWithPrice or Cancel that takes the last shares of a
\* resting order removes its reference number from the registry.
C15_ZeroRemovesOrder ==
    [][(/\ Step({"E", "C", "X"})
        /\ message'.refno \in DOMAIN orders
        /\ orders[message'.refno].shares > 0
        /\ orders[message'.refno].shares + message'.shares = 0) =>
            message'.refno \notin DOMAIN orders'
      ]_vars

\* the registry entry that an Add message writes
OrderOf(m) == [name |-> m.name, buysell |-> m.buysell, price |-> m.price, shares |-> m.shares]

\* an Add for a subscribed symbol is read whose reference number is in the
\* registry
DuplicateAdd ==
    /\ Step({"A", "F"})
    /\ message'.name \in names
    /\ message'.refno \in DOMAIN orders

\* the registry entry of the reference number is replaced by the new order
\* and no other entry changes
DuplicateAddOverwrites ==
    [][DuplicateAdd => orders' = [orders EXCEPT ![message'.refno] = OrderOf(message')]]_vars

C17_BuffersBounded ==
    \A name \in names :
        /\ Len(books[name].hist) <= MAXROWS
        /\ Len(messages[name]) <= MAXROWS

\* the types whose frames change the registry and a book
BookTypes == {"A", "F", "E", "C", "X", "D", "U"}

\* the registry that the frame decoded in this step yields from the registry
\* before it
RegistryAfter ==
    LET m == message'
    IN  IF m.type \in {"A", "F"} THEN Orderlist_add(orders, m)
        ELSE IF m.type \in {"E", "C", "X", "D"} THEN Orderlist_update(orders, m)
        ELSE LET old == orders[m.refno]
             IN  Orderlist_add(Orderlist_update(orders, DeleteHalf(m, old)),
                               AddHalf(m, old))

\* the books that the frame decoded in this step yields, one after the other,
\* from the book of its symbol before it
BooksAfter ==
    LET m == message'
        cur == books[m.name].cur
    IN  IF m.type = "U"
        THEN LET old == orders[m.refno]
                 after_delete == Book_update(cur, DeleteHalf(m, old))
             IN  <<after_delete, Book_update(after_delete, AddHalf(m, old))>>
        ELSE <<Book_update(cur, m)>>

\* what a run has to show of a symbol: its book and every row recorded for it
Shown(d, bl, name) == [cur |-> bl[name].cur, rows |-> RecordedIn(d, bl, name)]

WireTimestamp(high, low) == high * 2^LowBits + low

\* C20: a version 5.0 event decoded from a frame with timestamp t has
\* sec * 10^9 + nano = t and 0 <= nano < 10^9.
C20_TimestampNormalized ==
    [][\A high \in TimestampHigh, low \in TimestampLow :
        (\/ \E f \in AddFrames_50 : Add_50(high, low, f[1], f[2], f[3], f[4], f[5])
         \/ System_50(high, low, "C")) =>
            /\ message'.sec * Billion + message'.nano = WireTimestamp(high, low)
            /\ 0 <= message'.nano /\ message'.nano < Billion
      ]_vars

\* C21: a frame whose type byte is none of T, S, H, A, F, E, C, X, D, U, P,
\* Q, I is skipped: it is counted as read, the clock, the registry, every
\* book, every buffer and the sink are unchanged, and the loop goes on.
C21_OtherTypeSkipped ==
    [][(\/ \E type \in UnknownTypes : Unknown(type)
        \/ \E type \in NonAsciiTypes : UndecodableType(type)) =>
            /\ messagecount' = messagecount + 1
            /\ UNCHANGED <<clock, reading, orders, books, messages, db>>
            /\ pc' = "loop"
      ]_vars

\* version 4.1: a frame whose payload has another length than the format of
\* its type ends the run and changes nothing (C22 for version 4.1)
WrongLengthRejected_41 ==
    [][(\E f \in MalformedFrames : Malformed(f[1], f[2])) =>
            /\ pc' \notin {"loop", "cleanup"}
            /\ UNCHANGED <<orders, books, messages, db, message>>
      ]_vars

\* this step reads a version 5.0 frame of this type with a payload of this length
Frame_50(type, size) ==
    \/ type = "S" /\ size = calcsize_50.S /\ ReadSystem_50
    \/ type = "A" /\ size = calcsize_50.A /\ ReadAdd_50
    \/ type \in DOMAIN calcsize_50 /\ Malformed_50(type, size)
    \/ type \in {"P", "I"} /\ Other_50(type, size)

\* C22: every consumed type has a layout, and a frame of the type whose
\* payload has another length than the layout's ends the run with an error:
\* it produces no event and changes neither the registry nor a book nor a
\* buffer nor the sink.
C22_WrongLengthRejected ==
    [][\A type \in {"S", "A", "P", "I"} :
        \E layout \in PayloadSizes_50 :
            \A size \in PayloadSizes_50 \ {layout} :
                Frame_50(type, size) =>
                    /\ pc' \notin {"loop", "cleanup"}
                    /\ UNCHANGED <<orders, books, messages, db, message>>
      ]_vars

\* C23: with a version that is none of 4.0, 4.1 and 5.0 no event is ever
\* produced, whatever frames are read: no message is decoded, the clock, the
\* registry, the books, the buffers and the sink stay as constructed, and
\* the run never leaves the loop but by an error.
C23_UnsupportedVersionAborts ==
    /\ pc \in {"loop", "ValueError", "UnicodeDecodeError", "struct.error"}
    /\ message = None
    /\ clock = 0
    /\ orders = [r \in {} |-> 0]
    /\ \A name \in names :
        /\ books[name] = [hist |-> << >>, cur |-> Book]
        /\ messages[name] = << >>
        /\ db[name] = << >>

\* frames of other types were skipped and then a frame of a decoded type
\* ended the run
C23_Witness ==
    /\ pc = "ValueError"
    /\ messagecount >= 2

\* C24: a Replace of a known order of a subscribed symbol resolves its three
\* messages against the registry as it stands before the Replace, then
\* removes the old reference number from the registry, then applies the
\* delete-half to the book, then registers the new reference number, then
\* applies the add-half to the book.
C24_ReplaceStepsInOrder ==
    [][(Step({"U"}) /\ message'.name \in names) =>
        LET m == message'
            name == m.name
            old == orders[m.refno]
            removed == [r \in DOMAIN orders \ {m.refno} |-> orders[r]]
            inserted == [r \in DOMAIN removed \cup {m.newrefno} |->
                            IF r = m.newrefno
                            THEN [name |-> old.name, buysell |-> old.buysell,
                                  price |-> m.price, shares |-> m.shares]
                            ELSE removed[r]]
            after_delete == Book_update(books[name].cur, DeleteHalf(m, old))
            after_add == Book_update(after_delete, AddHalf(m, old))
            deleted == [books EXCEPT ![name] =
                            [hist |-> Append(@.hist, to_array(after_delete)),
                             cur |-> after_delete]]
            added == [deleted EXCEPT ![name] =
                            [hist |-> Append(@.hist, to_array(after_add)),
                             cur |-> after_add]]
        IN  /\ ReplaceParts = <<m, DeleteHalf(m, old), AddHalf(m, old)>>
            /\ SubSeq(Replace_effects(orders, books, messages,
                                      m, DeleteHalf(m, old), AddHalf(m, old)), 1, 4)
                    = << [orders |-> removed, books |-> books, messages |-> messages],
                         [orders |-> removed, books |-> deleted, messages |-> messages],
                         [orders |-> inserted, books |-> deleted, messages |-> messages],
                         [orders |-> inserted, books |-> added, messages |-> messages] >>
            /\ orders' = inserted
            /\ books'[name].cur = after_add
      ]_vars

\* a Replace moved a resting order to another price under another reference
\* number
C24_Witness ==
    /\ message.type = "U" /\ message.name \in names
    /\ message.refno # message.newrefno
    /\ message.newrefno \in DOMAIN orders
    /\ orders[message.newrefno].price = message.price
    /\ message.price \in DOMAIN books[message.name].cur.bids
    /\ Cardinality(DOMAIN books[message.name].cur.bids) = 1

\* the aggregate shares of a side at a price: none where there is no level
LevelShares(side, price) == IF price \in DOMAIN side THEN side[price] ELSE 0
\* the side of a book that an order of this side rests on
SideOf(b, buysell) == IF buysell = "B" THEN b.bids ELSE b.asks
\* the other side
OtherSideOf(b, buysell) == IF buysell = "B" THEN b.asks ELSE b.bids

\* C25: after a Replace of a resting order of a subscribed symbol by another
\* reference number the registry holds the new reference number, with symbol
\* and side of the old order and price and shares of the Replace, and no
\* longer the old one; the level of the old price is reduced by the old
\* order's remaining shares and the level of the new price is increased by
\* the new shares.
C25_ReplaceMovesOrder ==
    [][(Step({"U"}) /\ message'.name \in names /\ message'.newrefno # message'.refno) =>
        LET m == message'
            old == orders[m.refno]
            before == SideOf(books[m.name].cur, old.buysell)
            after == SideOf(books'[m.name].cur, old.buysell)
        IN  /\ m.refno \notin DOMAIN orders'
            /\ m.newrefno \in DOMAIN orders'
            /\ orders'[m.newrefno] = [name |-> old.name, buysell |-> old.buysell,
                                      price |-> m.price, shares |-> m.shares]
            /\ IF m.price = old.price
               THEN LevelShares(after, m.price) =
                        LevelShares(before, m.price) - old.shares + m.shares
               ELSE /\ LevelShares(after, old.price) =
                            LevelShares(before, old.price) - old.shares
                    /\ LevelShares(after, m.price) =
                            LevelShares(before, m.price) + m.shares
      ]_vars

\* C26: an Execute, ExecuteWithPrice or Cancel of k shares against a resting
\* order of a subscribed symbol with more than k remaining shares takes k from
\* the order's remaining shares and k from the level of the order's side and
\* price, and leaves every other order and every other level as it is.
C26_PartialExecuteDecrements ==
    [][(/\ Step({"E", "C", "X"})
        /\ message'.name \in names
        /\ orders[message'.refno].shares > -message'.shares) =>
        LET m == message'
            k == -m.shares
            old == orders[m.refno]
            cur == books[m.name].cur
            new == books'[m.name].cur
        IN  /\ orders' = [orders EXCEPT ![m.refno].shares = @ - k]
            /\ LevelShares(SideOf(new, old.buysell), old.price) =
                    LevelShares(SideOf(cur, old.buysell), old.price) - k
            /\ \A p \in (DOMAIN SideOf(cur, old.buysell)
                         \cup DOMAIN SideOf(new, old.buysell)) \ {old.price} :
                    LevelShares(SideOf(new, old.buysell), p) =
                        LevelShares(SideOf(cur, old.buysell), p)
            /\ OtherSideOf(new, old.buysell) = OtherSideOf(cur, old.buysell)
            /\ \A other \in names \ {m.name} : books'[other].cur = books[other].cur
      ]_vars

\* C27: a Delete of a resting order of a subscribed symbol removes its
\* reference number from the registry and takes the order's remaining shares
\* from the level of its side and price; a level that reaches zero is removed.
C27_DeleteRemovesOrder ==
    [][(Step({"D"}) /\ message'.name \in names) =>
        LET m == message'
            old == orders[m.refno]
            before == SideOf(books[m.name].cur, old.buysell)
            after == SideOf(books'[m.name].cur, old.buysell)
        IN  /\ orders' = [r \in DOMAIN orders \ {m.refno} |-> orders[r]]
            /\ LevelShares(after, old.price) = LevelShares(before, old.price) - old.shares
            /\ old.price \in DOMAIN after => after[old.price] # 0
      ]_vars

\* the message decoded in this step is the resolved form of an event of this
\* type for this resting order, with these signed shares
Resolved(type, refno, shares) ==
    /\ message'.type = type
    /\ message'.refno = refno
    /\ message'.name = orders[refno].name
    /\ message'.buysell = orders[refno].buysell
    /\ message'.price = orders[refno].price
    /\ message'.shares = shares

\* the message buffer and the book of a subscribed symbol receive the message
\* decoded in this step
Received ==
    message'.name \in names =>
        /\ messages'[message'.name] = Append(messages[message'.name], message')
        /\ books'[message'.name].cur = Book_update(books[message'.name].cur, message')

\* C28: an Execute, ExecuteWithPrice, Cancel or Delete that names a resting
\* order is resolved to the order's symbol, side and price, with shares equal
\* to minus its wire shares (minus the order's remaining shares for a
\* Delete), and the message buffer and the book receive this resolved form.
C28_ResolvedAndSigned ==
    [][/\ \A f \in ExecuteFrames :
            (/\ Step({"E", "X"}) /\ f[2] \in DOMAIN orders
             /\ \E nano \in Nanos : Execute(f[1], nano, f[2], f[3]))
                => Resolved(f[1], f[2], -f[3]) /\ Received
       /\ \A f \in ExecuteWithPriceFrames :
            (/\ Step({"C"}) /\ f[1] \in DOMAIN orders
             /\ \E nano \in Nanos : ExecuteWithPrice(nano, f[1], f[2], f[3]))
                => Resolved("C", f[1], -f[2]) /\ Received
       /\ \A refno \in Refnos :
            (/\ Step({"D"}) /\ refno \in DOMAIN orders
             /\ \E nano \in Nanos : Delete(nano, refno))
                => Resolved("D", refno, -orders[refno].shares) /\ Received
      ]_vars

\* an order was executed in part and then deleted: the Delete is resolved to
\* minus the remaining share
C28_Witness ==
    /\ message.type = "D" /\ message.name \in names
    /\ message.shares = -1
    /\ messages[message.name][Len(messages[message.name])] = message
    /\ message.price \notin DOMAIN books[message.name].cur.bids

\* the message brings an existing level of the book to exactly zero shares
BringsToZero(b, m) ==
    /\ m.price \in DOMAIN SideOf(b, m.buysell)
    /\ SideOf(b, m.buysell)[m.price] + m.shares = 0

\* the snapshot row shows no level of the message's side at its price
NotShown(row, m) ==
    \A i \in 1..nlevels :
        (IF m.buysell = "B" THEN BidPrice(row, i) ELSE AskPrice(row, i)) # m.price

\* C29: an update that brings an existing level of a book to exactly zero
\* shares removes the price from that side in the same update, and the
\* snapshot recorded for the update does not show the level.
C29_ZeroLevelRemoved ==
    [][(Step(BookTypes) /\ message'.name \in names) =>
        LET m == message'
            name == m.name
            cur == books[name].cur
            rows == RecordedIn(db', books', name)
            n == Len(rows)
        IN  IF m.type = "U"
            THEN LET old == orders[m.refno]
                     after_delete == Book_update(cur, DeleteHalf(m, old))
                 IN  /\ BringsToZero(cur, DeleteHalf(m, old)) =>
                            NotShown(rows[n - 1], DeleteHalf(m, old))
                     /\ BringsToZero(after_delete, AddHalf(m, old)) =>
                            /\ m.price \notin DOMAIN SideOf(books'[name].cur, old.buysell)
                            /\ NotShown(rows[n], AddHalf(m, old))
            ELSE BringsToZero(cur, m) =>
                    /\ m.price \notin DOMAIN SideOf(books'[name].cur, m.buysell)
                    /\ NotShown(rows[n], m)
      ]_vars

\* a Delete emptied one of two bid levels
C29_Witness ==
    /\ message.type = "D" /\ message.name \in names /\ message.buysell = "B"
    /\ message.price \notin DOMAIN books[message.name].cur.bids
    /\ Cardinality(DOMAIN books[message.name].cur.bids) = 1
    /\ Len(Recorded(message.name)) = 3

\* C30: an Add (A or F) of s shares at price p for a subscribed symbol creates
\* the level p with aggregate s on its side when p is not a key of that side,
\* and otherwise raises the aggregate at p by s (a level whose aggregate
\* becomes zero is read as aggregate 0); the other side and every other level
\* of the side stay as they were.
C30_AddCreatesOrIncreases ==
    [][\A nano \in Nanos, f \in AddFrames \cup AddFrames_long :
        ((Add(f[1], nano, f[2], f[3], f[4], f[5], f[6])
            \/ Add_long(f[1], nano, f[2], f[3], f[4], f[5], f[6])) /\ f[5] \in names) =>
        LET s == f[4]
            p == f[6]
            side == SideOf(books[f[5]].cur, f[3])
            after == SideOf(books'[f[5]].cur, f[3])
        IN  /\ p \notin DOMAIN side => p \in DOMAIN after /\ after[p] = s
            /\ p \in DOMAIN side => LevelShares(after, p) = side[p] + s
            /\ DOMAIN after \ {p} = DOMAIN side \ {p}
            /\ \A q \in DOMAIN side \ {p} : after[q] = side[q]
            /\ OtherSideOf(books'[f[5]].cur, f[3]) = OtherSideOf(books[f[5]].cur, f[3])
      ]_vars

\* an Add landed on a level that another order had already opened
C30_Witness ==
    /\ message.type = "A" /\ message.name \in names /\ message.buysell = "S"
    /\ message.price \in DOMAIN books[message.name].cur.asks
    /\ books[message.name].cur.asks[message.price] = 4
    /\ messagecount = 2

\* C31: an Execute, ExecuteWithPrice, Cancel or Delete of a subscribed symbol
\* whose side of the book has no level at the price of the resolved message
\* leaves the bids and the asks of the book as they were.
C31_AbsentLevelUntouched ==
    [][(/\ Step({"E", "C", "X", "D"})
        /\ message'.name \in names
        /\ message'.price \notin
               DOMAIN SideOf(books[message'.name].cur, message'.buysell)) =>
            /\ books'[message'.name].cur.bids = books[message'.name].cur.bids
            /\ books'[message'.name].cur.asks = books[message'.name].cur.asks
      ]_vars

\* an Execute resolved to a resting order whose level had already left the
\* book: the rows before and after it show no level at its price
C31_Witness ==
    /\ message.type = "E" /\ message.name \in names
    /\ message.refno \in DOMAIN orders
    /\ Len(Recorded(message.name)) = 3
    /\ NotShown(Recorded(message.name)[2], message)
    /\ NotShown(Recorded(message.name)[3], message)
    /\ DOMAIN books[message.name].cur.bids = {}
    /\ DOMAIN books[message.name].cur.asks = {}

\* the row carries the timestamp of the message
StampedWith(row, m) == row[1] = m.sec /\ row[2] = m.nano

\* C32: after a message of a subscribed symbol was applied to its book, sec
\* and nano of the book are those of the message, the snapshot row recorded
\* for it carries them, and both rows recorded for a Replace carry the
\* timestamp of the Replace.
C32_BookStampedWithEvent ==
    [][(Step(BookTypes) /\ message'.name \in names) =>
        LET m == message'
            rows == RecordedIn(db', books', m.name)
            n == Len(rows)
        IN  /\ m.nano \in Nanos
            /\ books'[m.name].cur.sec = m.sec
            /\ books'[m.name].cur.nano = m.nano
            /\ StampedWith(rows[n], m)
            /\ m.type = "U" => StampedWith(rows[n - 1], m)
      ]_vars

\* a Replace after the clock was set: its two rows carry the second of the
\* clock and the nanoseconds of the Replace, the row of the Add before the
\* clock was set does not
C32_Witness ==
    /\ message.type = "U" /\ message.name \in names
    /\ clock \in Secs /\ message.sec = clock
    /\ Len(Recorded(message.name)) = 3
    /\ Recorded(message.name)[1][1] = 0
    /\ StampedWith(Recorded(message.name)[2], message)
    /\ StampedWith(Recorded(message.name)[3], message)

\* the remaining shares of the resting orders of a registry with this symbol,
\* side and price
RestingShares(ords, name, buysell, price) ==
    LET mine == {r \in DOMAIN ords : /\ ords[r].name = name
                                     /\ ords[r].buysell = buysell
                                     /\ ords[r].price = price}
    IN  Sum([r \in mine |-> ords[r].shares], mine)

\* every level of every book is the sum of the resting orders at it, and the
\* levels are the places where that sum is positive
BooksMatchRegistry(ords, bl) ==
    \A name \in names : \A buysell \in {"B", "S"} :
        LET side == SideOf(bl[name].cur, buysell)
            prices == DOMAIN side \cup
                      {ords[r].price : r \in {q \in DOMAIN ords : ords[q].name = name}}
        IN  \A price \in prices :
                /\ LevelShares(side, price) = RestingShares(ords, name, buysell, price)
                /\ price \in DOMAIN side <=>
                       RestingShares(ords, name, buysell, price) > 0

\* the frame read by this step keeps the feed well formed: an Add brings
\* positive shares, a side and a reference number the registry does not hold,
\* a Replace brings positive shares and a new reference number that no other
\* order holds, an Execute, ExecuteWithPrice or Cancel takes no more than the
\* order has left
WellFormedStep ==
    message'.name \in names =>
        /\ Step({"A", "F"}) =>
              /\ message'.refno \notin DOMAIN orders
              /\ message'.shares > 0
              /\ message'.buysell \in {"B", "S"}
        /\ Step({"U"}) =>
              /\ message'.newrefno \notin DOMAIN orders \ {message'.refno}
              /\ message'.shares > 0
        /\ Step({"E", "C", "X"}) =>
              -message'.shares <= orders[message'.refno].shares

\* what a well formed feed keeps true: the books match the registry and no
\* resting order has less than zero shares left
MatchAndNoneOverdrawn(ords, bl) ==
    /\ BooksMatchRegistry(ords, bl)
    /\ \A r \in DOMAIN ords : ords[r].shares >= 0

\* C33: when unpack starts the books match the registry and no order is
\* overdrawn, and every frame that keeps the feed well formed takes a state
\* where this holds to a state where it holds; so along a well formed feed
\* each level is the sum of the remaining shares of the resting orders at it
\* and levels exist exactly where that sum is positive.
C33_WellFormedFeedKeepsBooksAndRegistryEqual ==
    /\ Init => MatchAndNoneOverdrawn(orders, books)
    /\ [][(MatchAndNoneOverdrawn(orders, books) /\ WellFormedStep) =>
              MatchAndNoneOverdrawn(orders', books')]_vars

\* two Adds at one level and a partial Execute of the first: the level holds
\* what the two orders have left
C33_Witness ==
    /\ message.type = "E" /\ message.name = "GOOG" /\ message.shares = -1
    /\ DOMAIN orders = {1, 2}
    /\ orders[1].shares = 1 /\ orders[2].shares = 2
    /\ orders[1].price = orders[2].price /\ orders[1].buysell = orders[2].buysell
    /\ LevelShares(SideOf(books["GOOG"].cur, orders[1].buysell), orders[1].price) = 3
    /\ BooksMatchRegistry(orders, books)

\* the Replace markers among the messages recorded for a symbol
ReplaceMarkers(ml, name) ==
    Cardinality({i \in 1..Len(ml[name]) : ml[name][i].type = "U"})

C35_ExecuteWithPriceAtRestingPrice ==
    [][\A nano \in Nanos, f \in ExecuteWithPriceFrames :
        (ExecuteWithPrice(nano, f[1], f[2], f[3]) /\ f[1] \in DOMAIN orders) =>
            LET old == orders[f[1]]
                side == SideOf(books[old.name].cur, old.buysell)
                after == SideOf(books'[old.name].cur, old.buysell)
            IN  /\ message'.price = old.price
                /\ messages'[old.name][Len(messages'[old.name])].price = old.price
                /\ old.price \in DOMAIN side =>
                       LevelShares(after, old.price) = side[old.price] - f[2]
                /\ \A p \in (DOMAIN side \cup DOMAIN after \cup {f[3]}) \ {old.price} :
                       /\ p \in DOMAIN after <=> p \in DOMAIN side
                       /\ LevelShares(after, p) = LevelShares(side, p)
      ]_vars

\* an ExecuteWithPrice of one share of an order resting at price 1, carrying
\* the execution price 3 at which another order rests: the level at 1 lost
\* the share, the level at 3 did not
C35_Witness ==
    /\ message.type = "C" /\ message.name = "GOOG" /\ message.buysell = "B"
    /\ message.price = 1 /\ message.shares = -1
    /\ DOMAIN books["GOOG"].cur.bids = {1, 3}
    /\ books["GOOG"].cur.bids[1] = 1
    /\ books["GOOG"].cur.bids[3] = 2

\* C36: a step that reads a T, S, H, P, Q or I message leaves the registry
\* and every book as they were, whether or not its symbol is subscribed; the
\* registry or a book changes only in a step that reads an A, F, E, C, X, D
\* or U message.
C36_OnlyOrderMessagesChangeBooks ==
    [][/\ Step({"T", "S", "H", "P", "Q", "I"}) => UNCHANGED <<orders, books>>
       /\ (orders' # orders \/ books' # books) => Step(BookTypes)
      ]_vars

\* a P message of a subscribed symbol was read while an order of that symbol
\* rested in the book
C36_Witness ==
    /\ message.type = "P" /\ message.name \in names
    /\ \E r \in DOMAIN orders : orders[r].name = message.name
    /\ DOMAIN books[message.name].cur.bids # {}
    /\ Len(Recorded(message.name)) = 1

\* C37: a step whose message resolves to a subscribed symbol leaves the book
\* (bids, asks, sec, nano), the buffered snapshot rows, the buffered messages
\* and the written rows of every other subscribed symbol as they were.
C37_OtherSymbolsUntouched ==
    [][(Step(BookTypes) /\ message'.name \in names) =>
        \A other \in names \ {message'.name} :
            /\ books'[other].cur = books[other].cur
            /\ books'[other].hist = books[other].hist
            /\ messages'[other] = messages[other]
            /\ db'[other] = db[other]
      ]_vars

\* an order of GOOG was executed while an order of AAPL rested in its book
C37_Witness ==
    /\ message.type = "E" /\ message.name = "GOOG"
    /\ Len(Recorded("GOOG")) = 2 /\ Len(messages["GOOG"]) = 2
    /\ Len(Recorded("AAPL")) = 1 /\ Len(messages["AAPL"]) = 1
    /\ DOMAIN books["AAPL"].cur.bids # {}

\* the read loop is left
ReadLoopEnds == <>(pc # "loop")

\* an iteration of the read loop consumes a frame or ends the loop
IterationConsumes ==
    [][pc = "loop" => (messagecount' = messagecount + 1 \/ pc' # "loop")]_vars

C39_NothingAfterEndOfMessages ==
    /\ [](~reading => pc # "loop")
    /\ [][~reading =>
            /\ UNCHANGED <<orders, messages, messagecount, message, clock, reading>>
            /\ \A name \in names :
                  /\ books'[name].cur = books[name].cur
                  /\ RecordedIn(db', books', name) = Recorded(name)]_vars

\* the clean-up has run after a C that followed an Add, with frames left in
\* the source
C39_Witness ==
    /\ message.type = "S" /\ message.event = "C" /\ ~reading
    /\ pc \notin {"loop", "cleanup"}
    /\ DOMAIN orders # {}
    /\ messagecount < MaxFrames

\* C40: when a SystemEvent with code C has ended the reading and unpack has
\* ended, then for every subscribed symbol the rows written to the book sink
\* are all the snapshot rows recorded for it, in recording order, and the
\* snapshot buffer and the message buffer are empty.
C40_BatchingLosesNothing ==
    (~reading /\ Ended) =>
        \A name \in names :
            /\ db[name] = Recorded(name)
            /\ books[name].hist = << >>
            /\ messages[name] = << >>

=========================================================================
